---- MODULE Spec2Model ----
(***************************************************************************)
(* Collage templates of sshusain313/hexagon: the canvas export pipeline    *)
(* (renderGridToCanvas / drawKey / drawImageCover / handleDownload) of     *)
(* 33.tsx, 59.tsx (two components) and 75.tsx.                             *)
(*                                                                         *)
(* Numbers.  Every JavaScript number that is not an integer is kept as an  *)
(* exact fraction <<numerator, denominator>> with a positive denominator.  *)
(* devicePixelRatio and scale are kept in quarters (8 = 2.0, 16 = 4.0):    *)
(* quarters are exact doubles, so every tie of Math.round in the model is  *)
(* a tie of the double arithmetic too.                                     *)
(***************************************************************************)
EXTENDS Integers, Sequences, FiniteSets, TLC

VARIABLES
    template,          \* the mounted template component
    devicePixelRatio,  \* window.devicePixelRatio, in quarters
    cellImages,        \* useState: key -> uploaded image
    cellOffsets,       \* useState: key -> {x, y}
    isDownloading,     \* useState
    exports,           \* the handleDownload calls made so far, in call order
    canvases,          \* the canvases created so far: each the sequence of its draws
    downloads,         \* the files handed to the browser (link.click())
    toasts,            \* the toasts shown
    lastDraws,         \* geometry harness: the two most recent drawKey rectangles
    crop,              \* cover harness: the last drawImageCover call and its crop
    canvasSize,        \* geometry harness: the canvas renderGridToCanvas created
    selectedCell,      \* useState: the key the next chosen file goes to
    fileDialog,        \* the file chooser opened by fileInputRef.current.click()
    readers,           \* the FileReaders that are reading, in the order of creation
    lastUpload,        \* key -> the file most recently passed to readAsDataURL for it
    readsStarted,      \* how many FileReaders have been created
    dragRef,           \* useRef: the drag in progress
    pendingOffsetRef,  \* useRef: the offset the next animation frame stores
    rafIdRef,          \* useRef: the handle of the animation frame requested
    frames,            \* the handles of the animation frame callbacks not yet run
    lastMove,          \* the most recent move event: its pointer position and the drag it met
    listeners,         \* how many startDrag closures listen on window
    timers,            \* how many setTimeout(..., 0) callbacks of onUp have not run
    modelsLoadedPromise, \* module variable of the face cropper
    loadsStarted,      \* how often the model files have been requested
    calls,             \* the centerCropFace calls made so far
    framing            \* framing harness: the last framing centerCropFace computed

store == <<cellImages, cellOffsets>>
exportVars == <<isDownloading, exports, canvases, downloads, toasts>>
uiVars == <<selectedCell, fileDialog, readers, lastUpload, readsStarted, dragRef,
            pendingOffsetRef, rafIdRef, frames, lastMove, listeners, timers>>
faceVars == <<modelsLoadedPromise, loadsStarted, calls, framing>>
vars == <<template, devicePixelRatio, cellImages, cellOffsets, isDownloading,
          exports, canvases, downloads, toasts, lastDraws, crop, canvasSize,
          selectedCell, fileDialog, readers, lastUpload, readsStarted, dragRef,
          pendingOffsetRef, rafIdRef, frames, lastMove, listeners, timers,
          modelsLoadedPromise,
          loadsStarted, calls, framing>>

(***************************************************************************)
(* Bounds of the model.                                                    *)
(***************************************************************************)
MaxDim == 6            \* image and destination sizes of the cover harness
MaxCells == 3          \* populated cells of the store an export starts from
MaxExports == 2        \* handleDownload calls in one behaviour

\* devicePixelRatio values (quarters): 0 stands for a missing value (|| 1),
\* 4 = 1.0, 8 = 2.0, 10 = 2.5, 12 = 3.0, 14 = 3.5, 16 = 4.0, 20 = 5.0
DevicePixelRatios == {0, 4, 8, 10, 12, 14, 16, 20}

Min(a, b) == IF a < b THEN a ELSE b
Max(a, b) == IF a > b THEN a ELSE b

RECURSIVE Flatten(_)
Flatten(ss) == IF ss = <<>> THEN <<>> ELSE Head(ss) \o Flatten(Tail(ss))

(***************************************************************************)
(* Cell keys.                                                              *)
(***************************************************************************)
\* cid(section, row, col) of a component with COMP_ID comp
cid(comp, section, row, col) ==
    comp \o ":" \o section \o ":" \o ToString(row) \o "-" \o ToString(col)

\* the template literal `${row}-${col}` of 59.tsx
rc(row, col) == ToString(row) \o "-" \o ToString(col)

Templates == {"grid-33", "grid-59", "grid-45", "grid-75"}

(***************************************************************************)
(* Layouts: the drawKey calls of each renderGridToCanvas, in program       *)
(* order.  A layout is a sequence of groups; the calls of one group are    *)
(* issued together (one Promise.all, or a single awaited call) and the     *)
(* next group is issued when the group before it has resolved.             *)
(***************************************************************************)
Pl(key, r, c, rs, cs) == [key |-> key, r |-> r, c |-> c, rs |-> rs, cs |-> cs]

Layout33 ==
    << [c \in 1..8 |-> Pl(cid("grid-33", "top", 0, c - 1), 0, c - 1, 1, 1)] >>
    \o Flatten([n \in 1..8 |->
          LET i == n - 1
              r == 1 + i
              left == << Pl(cid("grid-33", "left", i + 1, 0), r, 0, 1, 1) >>
              center == << Pl(cid("grid-33", "center", 0, 0), 1, 1, 8, 6) >>
              right == << Pl(cid("grid-33", "right", i + 1, 7), r, 7, 1, 1) >>
          IN  IF i = 0 THEN <<left, center, right>> ELSE <<left, right>>])
    \o << [c \in 1..8 |-> Pl(cid("grid-33", "bottom", 9, c - 1), 9, c - 1, 1, 1)] >>

Layout59 ==
    << [n \in 1..6 |-> Pl(rc(-1, (n - 1) + 2), 0, 1 + (n - 1), 1, 1)],
       [c \in 1..8 |-> Pl(rc(0, c - 1), 1, c - 1, 1, 1)],
       [c \in 1..8 |-> Pl(rc(0, c - 1), 2, c - 1, 1, 1)] >>
    \o Flatten([n \in 1..8 |->
          LET i == n - 1
              r == 3 + i
              borders == << Pl(rc(i + 1, 0), r, 0, 1, 1), Pl(rc(i + 1, 7), r, 7, 1, 1) >>
              center == << Pl("center", 3, 1, 6, 6) >>
          IN  IF i = 0 THEN <<borders, center>> ELSE <<borders>>])
    \o << [c \in 1..8 |-> Pl(rc(9, c - 1), 11, c - 1, 1, 1)] >>

Layout45 ==
    << [n \in 1..6 |-> Pl(cid("grid-45", "top-extension", -1, (n - 1) + 2), 0, 1 + (n - 1), 1, 1)],
       [c \in 1..8 |-> Pl(cid("grid-45", "top", 0, c - 1), 1, c - 1, 1, 1)] >>
    \o Flatten([n \in 1..8 |->
          LET i == n - 1
              r == 2 + i
              midL == << Pl(cid("grid-45", "midL", i + 1, 0), r, 0, 1, 1) >>
              center == << Pl(cid("grid-45", "center", 0, 0), 2, 1, 8, 6) >>
              midR == << Pl(cid("grid-45", "midR", i + 1, 7), r, 7, 1, 1) >>
          IN  IF i = 0 THEN <<midL, center, midR>> ELSE <<midL, midR>>])
    \o << [c \in 1..8 |-> Pl(cid("grid-45", "bottom", 8, c - 1), 10, c - 1, 1, 1)],
          [n \in 1..6 |-> Pl(rc(-1, (n - 1) + 2), 11, 1 + (n - 1), 1, 1)] >>

Layout75 ==
    << [c \in 1..9 |-> Pl(cid("grid-75", "topExt", -1, (c - 1) + 2), 0, c - 1, 1, 1)],
       [c \in 1..9 |-> Pl(cid("grid-75", "topA", 0, c - 1), 1, c - 1, 1, 1)],
       [c \in 1..9 |-> Pl(cid("grid-75", "topB", 0, c - 1), 2, c - 1, 1, 1)] >>
    \o Flatten([n \in 1..5 |->
          LET i == n - 1
              r == 3 + i
              midL == [m \in 1..2 |-> Pl(cid("grid-75", "midL", i + 1, m - 1), r, m - 1, 1, 1)]
              center == << Pl(cid("grid-75", "center", 0, 0), 3, 2, 5, 5) >>
              midR == [m \in 1..2 |-> Pl(cid("grid-75", "midR", i + 1, 7 + (m - 1)), r, 7 + (m - 1), 1, 1)]
          IN  IF i = 0 THEN <<midL, center, midR>> ELSE <<midL, midR>>])
    \o << [c \in 1..9 |-> Pl(cid("grid-75", "bottomA", 8, c - 1), 8, c - 1, 1, 1)],
          [c \in 1..9 |-> Pl(cid("grid-75", "bottomB", 8, c - 1), 9, c - 1, 1, 1)],
          [c \in 1..9 |-> Pl(cid("grid-75", "bottomC", 8, c - 1), 10, c - 1, 1, 1)] >>

Layout(t) ==
    CASE t = "grid-33" -> Layout33
      [] t = "grid-59" -> Layout59
      [] t = "grid-45" -> Layout45
      [] t = "grid-75" -> Layout75

\* every drawKey call of the layout, as a set of placements
Calls(layout) == {layout[g][i] : <<g, i>> \in
                     {<<g, i>> \in (1..Len(layout)) \X (1..9) : i <= Len(layout[g])}}

PlacementsOf == [t \in Templates |-> Calls(Layout(t))]

Placements(t) == PlacementsOf[t]

(***************************************************************************)
(* The keys the grid's cells pass to handleCellActivate, and the key that  *)
(* handleCellClick stores in selectedCell for them.                        *)
(***************************************************************************)
DomKeysOf == [t \in Templates |-> {p.key : p \in Placements(t)}]

DomKeys(t) == DomKeysOf[t]

\* handleCellClick: 33.tsx, 75.tsx and the grid-45 component store the key
\* they are given; 59.tsx's first component is called with the key as
\* cellType and no position, and builds `${position?.row}-${position?.col}`
handleCellClick(t, cellKey) ==
    IF t = "grid-59"
    THEN IF cellKey = "center" THEN "center" ELSE "undefined-undefined"
    ELSE cellKey

\* the keys an upload can populate
UploadKeysOf == [t \in Templates |-> {handleCellClick(t, k) : k \in DomKeys(t)}]

UploadKeys(t) == UploadKeysOf[t]

(***************************************************************************)
(* renderGridToCanvas: the constants of each template.                     *)
(***************************************************************************)
cols(t) == IF t = "grid-75" THEN 9 ELSE 8

rows(t) ==
    CASE t = "grid-33" -> 10
      [] t = "grid-59" -> 12
      [] t = "grid-45" -> 12
      [] t = "grid-75" -> 11

base(t) == 100

desiredGapPx(t) ==
    CASE t = "grid-59" -> 4
      [] t = "grid-45" -> 3
      [] t = "grid-75" -> 1
      [] OTHER -> 1

\* 33.tsx draws on an unscaled canvas with gap = 1
Scaled(t) == t # "grid-33"

\* scale = Math.min(4, Math.max(2, window.devicePixelRatio || 1)), in quarters
scale(t, dpr) ==
    IF Scaled(t)
    THEN Min(16, Max(8, IF dpr = 0 THEN 4 ELSE dpr))
    ELSE 4

\* gap = desiredGapPx / scale (33.tsx: gap = 1), as a fraction
gap(t, s) == IF Scaled(t) THEN <<desiredGapPx(t) * 4, s>> ELSE <<1, 1>>

\* Math.round(n / d) for d > 0: floor(n / d + 1/2), ties go up
MathRound(n, d) == (2 * n + d) \div (2 * d)

\* drawKey with the gaps added to the size instead of subtracted
drawKeySignSlip(t, s, p) ==
    LET g == gap(t, s)
        hn == g[1]
        hd == 2 * g[2]
        leftGap == IF p.c = 0 THEN 0 ELSE hn
        rightGap == IF p.c + p.cs = cols(t) THEN 0 ELSE hn
        topGap == IF p.r = 0 THEN 0 ELSE hn
        bottomGap == IF p.r + p.rs = rows(t) THEN 0 ELSE hn
    IN  [key |-> p.key, r |-> p.r, c |-> p.c, rs |-> p.rs, cs |-> p.cs,
         dx |-> MathRound(p.c * base(t) * hd + leftGap, hd),
         dy |-> MathRound(p.r * base(t) * hd + topGap, hd),
         dw |-> MathRound(p.cs * base(t) * hd + (leftGap + rightGap), hd),
         dh |-> MathRound(p.rs * base(t) * hd + (topGap + bottomGap), hd)]

\* drawKey: the destination rectangle of placement p, in logical units
drawKey(t, s, p) ==
    LET g == gap(t, s)
        hn == g[1]          \* gap / 2 = hn / hd
        hd == 2 * g[2]
        leftGap == IF p.c = 0 THEN 0 ELSE hn
        rightGap == IF p.c + p.cs = cols(t) THEN 0 ELSE hn
        topGap == IF p.r = 0 THEN 0 ELSE hn
        bottomGap == IF p.r + p.rs = rows(t) THEN 0 ELSE hn
    IN  [key |-> p.key, r |-> p.r, c |-> p.c, rs |-> p.rs, cs |-> p.cs,
         dx |-> MathRound(p.c * base(t) * hd + leftGap, hd),
         dy |-> MathRound(p.r * base(t) * hd + topGap, hd),
         dw |-> MathRound(p.cs * base(t) * hd - (leftGap + rightGap), hd),
         dh |-> MathRound(p.rs * base(t) * hd - (topGap + bottomGap), hd)]

(***************************************************************************)
(* drawImageCover: the source crop for an iw x ih image drawn into a       *)
(* dw x dh rectangle.  sx, sy, sw, sh are fractions.                       *)
(***************************************************************************)
\* drawImageCover with the comparison of the two ratios turned round
drawImageCoverSwapped(iw, ih, dw, dh) ==
    IF iw * dh < dw * ih
    THEN [sx |-> <<iw * dh - ih * dw, 2 * dh>>, sy |-> <<0, 1>>,
          sw |-> <<ih * dw, dh>>, sh |-> <<ih, 1>>]
    ELSE [sx |-> <<0, 1>>, sy |-> <<ih * dw - iw * dh, 2 * dw>>,
          sw |-> <<iw, 1>>, sh |-> <<iw * dh, dw>>]

drawImageCover(iw, ih, dw, dh) ==
    IF iw * dh > dw * ih           \* sRatio > dRatio
    THEN [sx |-> <<iw * dh - ih * dw, 2 * dh>>, sy |-> <<0, 1>>,
          sw |-> <<ih * dw, dh>>, sh |-> <<ih, 1>>]
    ELSE [sx |-> <<0, 1>>, sy |-> <<ih * dw - iw * dh, 2 * dw>>,
          sw |-> <<iw, 1>>, sh |-> <<iw * dh, dw>>]

(***************************************************************************)
(* The parts of the state a harness or the export leaves alone.            *)
(***************************************************************************)
NoCrop == [iw |-> 0, ih |-> 0, dw |-> 0, dh |-> 0]

EmptyMap == [k \in {} |-> 0]

NoExport ==
    /\ isDownloading = FALSE
    /\ exports = <<>>
    /\ canvases = <<>>
    /\ downloads = {}
    /\ toasts = {}

NoStore ==
    /\ cellImages = EmptyMap
    /\ cellOffsets = EmptyMap

\* the value null of a ref that otherwise holds an object
Null == [null |-> TRUE]

\* no file chosen, no drag started; a frame id is a positive number and 0
\* stands for the null of rafIdRef
NoUi ==
    /\ selectedCell = "null"
    /\ fileDialog = FALSE
    /\ readers = <<>>
    /\ lastUpload = EmptyMap
    /\ readsStarted = 0
    /\ dragRef = Null
    /\ pendingOffsetRef = Null
    /\ rafIdRef = 0
    /\ frames = {}
    /\ lastMove = Null
    /\ listeners = 0
    /\ timers = 0

\* the face cropper not yet called
NoFace ==
    /\ modelsLoadedPromise = "null"
    /\ loadsStarted = 0
    /\ calls = <<>>
    /\ framing = <<>>

NoCanvas == [width |-> 0, height |-> 0]

(***************************************************************************)
(* Geometry harness: drawKey applied to the placements of the mounted      *)
(* template whose key an upload can populate.                              *)
(***************************************************************************)
InitGeom ==
    /\ template \in Templates
    /\ devicePixelRatio \in DevicePixelRatios
    /\ NoStore /\ NoExport /\ NoUi /\ NoFace
    /\ lastDraws = <<>>
    /\ crop = NoCrop
    /\ canvasSize = NoCanvas

\* renderGridToCanvas: canvas.width and canvas.height.  The scaled templates
\* set Math.round(width * scale) by Math.round(height * scale); 33.tsx sets
\* width by height
canvasOf(t, s) ==
    IF Scaled(t)
    THEN [width |-> MathRound(cols(t) * base(t) * s, 4),
          height |-> MathRound(rows(t) * base(t) * s, 4)]
    ELSE [width |-> cols(t) * base(t), height |-> rows(t) * base(t)]

\* renderGridToCanvas up to the definition of drawKey
CreateCanvas ==
    /\ canvasSize = NoCanvas
    /\ canvasSize' = canvasOf(template, scale(template, devicePixelRatio))
    /\ UNCHANGED <<template, devicePixelRatio, store, exportVars, lastDraws, crop,
                   uiVars, faceVars>>

GeomDraw ==
    /\ canvasSize # NoCanvas
    /\ \E p \in Placements(template) :
          /\ p.key \in UploadKeys(template)
          /\ lastDraws' = (IF Len(lastDraws) = 2 THEN Tail(lastDraws) ELSE lastDraws)
                          \o << drawKey(template, scale(template, devicePixelRatio), p) >>
    /\ UNCHANGED <<template, devicePixelRatio, store, exportVars, crop, canvasSize,
                   uiVars, faceVars>>

NextGeom == CreateCanvas \/ GeomDraw

SpecGeom == InitGeom /\ [][NextGeom]_vars

(***************************************************************************)
(* Cover harness: drawImageCover applied to bounded sizes.                 *)
(***************************************************************************)
InitCover ==
    /\ template = "grid-33"
    /\ devicePixelRatio = 4
    /\ NoStore /\ NoExport /\ NoUi /\ NoFace
    /\ lastDraws = <<>>
    /\ crop = NoCrop
    /\ canvasSize = NoCanvas

CoverDraw ==
    /\ \E iw \in 1..MaxDim, ih \in 1..MaxDim, dw \in 1..MaxDim, dh \in 1..MaxDim :
          crop' = [iw |-> iw, ih |-> ih, dw |-> dw, dh |-> dh,
                   src |-> drawImageCover(iw, ih, dw, dh)]
    /\ UNCHANGED <<template, devicePixelRatio, store, exportVars, lastDraws,
                   canvasSize, uiVars, faceVars>>

NextCover == CoverDraw

SpecCover == InitCover /\ [][NextCover]_vars

(***************************************************************************)
(* The export: handleDownload -> renderGridToCanvas -> drawKey ->          *)
(* loadImage / drawImageCover -> canvas.toBlob (33.tsx: toDataURL) ->      *)
(* link.click().                                                           *)
(*                                                                         *)
(* An image is the decoded size of an uploaded data URL, or a data URL     *)
(* that does not decode (img.onerror).                                     *)
(***************************************************************************)
Images == { [w |-> 3, h |-> 2, ok |-> TRUE], [w |-> 0, h |-> 0, ok |-> FALSE] }

\* the cells the export's stores populate: the first three calls of the first
\* Promise.all, the spanning centre cell, the first call of the last
\* Promise.all, and every key an upload can populate that no drawKey call
\* reads
ExportKeysOf ==
    [t \in Templates |->
        (({Layout(t)[1][1].key, Layout(t)[1][2].key, Layout(t)[1][3].key,
           Layout(t)[Len(Layout(t))][1].key}
             \cup {p.key : p \in {q \in Placements(t) : q.rs > 1}})
           \cap UploadKeys(t))
        \cup (UploadKeys(t) \ DomKeys(t))]

ExportKeys(t) == ExportKeysOf[t]

Stores(t) ==
    UNION { [ks -> Images] :
              ks \in {k \in SUBSET ExportKeys(t) : Cardinality(k) <= MaxCells} }

\* handleDownload: if (!Object.keys(cellImages).length) return
NoContent(images) == DOMAIN images = {}

\* the calls of group g that start a load: drawKey returns at once when
\* cellImages[key] is empty
Issued(t, images, g) ==
    IF g > Len(Layout(t)) THEN {}
    ELSE {<<g, i>> : i \in {j \in 1..Len(Layout(t)[g]) :
                              Layout(t)[g][j].key \in DOMAIN images}}

\* the calls of a group issued and not awaited
GroupResolvedNoAwait(pending, g) == TRUE

\* await Promise.all([...]) / await drawKey(...): group g has resolved when
\* none of its calls is still loading
GroupResolved(pending, g) == \A q \in pending : q[1] # g

\* renderGridToCanvas between two image events: every group that resolves
\* lets the next one be issued, with no event in between
RECURSIVE Settle(_, _)
Settle(t, x) ==
    IF x.g > Len(Layout(t)) \/ ~GroupResolved(x.pending, x.g)
    THEN x
    ELSE Settle(t, [x EXCEPT !.g = @ + 1,
                             !.pending = @ \cup Issued(t, x.images, x.g + 1)])

\* the drawKey calls export x has made so far, populated key or not: those
\* of every group up to the one it is waiting for
Called(t, x) ==
    IF "ctx" \in x.errors THEN {}
    ELSE {Layout(t)[g][i] : <<g, i>> \in
            {<<g, i>> \in (1..Min(x.g, Len(Layout(t)))) \X (1..9) :
                i <= Len(Layout(t)[g])}}

\* renderGridToCanvas has returned its canvas
Returned(t, x) == x.g > Len(Layout(t))

\* one context kept for the component: that of the canvas created last
ctxShared(exps, e) == exps[Len(exps)].canvas

\* the context a drawKey closure of export e draws on
ctx(exps, e) == exps[e].canvas

\* a draw that resets the canvas first
drawImageResetting(canvas, e, rect, img) ==
    << [by |-> e, rect |-> rect,
        src |-> drawImageCover(img.w, img.h, rect.dw, rect.dh)] >>

\* ctx.drawImage(img, sx, sy, sw, sh, dx, dy, dw, dh) on a canvas
drawImage(canvas, e, rect, img) ==
    Append(canvas, [by |-> e, rect |-> rect,
                    src |-> drawImageCover(img.w, img.h, rect.dw, rect.dh)])

Toast(e, kind) == [by |-> e, kind |-> kind]

\* the Download button of 33.tsx, 59.tsx and 75.tsx:
\* disabled={!Object.keys(cellImages).length || isDownloading}
ButtonEnabled(images, busy) == DOMAIN images # {} /\ ~busy

\* the square 8x10 board has no button: its handleDownload is called by a
\* window listener of 'grid-template-download', whatever the state.  Its
\* export of a populated store runs in GridContext.downloadImage; the board
\* is followed here from the empty store it is mounted with.
Listeners == {"square-33"}

InitExport ==
    /\ template \in Templates \cup Listeners
    /\ devicePixelRatio \in {4, 12}
    /\ cellImages \in (IF template \in Templates THEN Stores(template) ELSE {EmptyMap})
    /\ cellOffsets \in {EmptyMap, [k \in DOMAIN cellImages |-> [x |-> 100, y |-> 0]]}
    /\ NoExport /\ NoUi /\ NoFace
    /\ lastDraws = <<>>
    /\ crop = NoCrop
    /\ canvasSize = NoCanvas

\* handleDownload setting isDownloading before it looks at the store
HandleDownloadNoContentBusy ==
    /\ template \in Listeners
    /\ NoContent(cellImages)
    /\ isDownloading' = TRUE
    /\ toasts' = toasts \cup {Toast(0, "empty")}
    /\ UNCHANGED <<template, devicePixelRatio, store, exports,
                   canvases, downloads, lastDraws, crop, canvasSize, uiVars, faceVars>>

\* handleDownload with an empty store: toast.error and return
HandleDownloadNoContent ==
    /\ template \in Listeners
    /\ NoContent(cellImages)
    /\ toasts' = toasts \cup {Toast(0, "empty")}
    /\ UNCHANGED <<template, devicePixelRatio, store, isDownloading, exports,
                   canvases, downloads, lastDraws, crop, canvasSize, uiVars, faceVars>>

\* what follows once export e, now in state x with the canvases cv, has run
\* to its next await: either it still waits for a load, or renderGridToCanvas
\* has returned and the PNG is encoded (33.tsx: at once, by toDataURL, with
\* the download; the others: by canvas.toBlob, whose callback comes later)
Continue(exps, e, x, cv, busy) ==
    /\ canvases' = cv
    /\ IF Returned(template, x) /\ x.pc = "render"
       THEN IF Scaled(template)
            THEN /\ exports' = [exps EXCEPT ![e] = [x EXCEPT !.pc = "encode"]]
                 /\ isDownloading' = busy
                 /\ UNCHANGED <<downloads, toasts>>
            ELSE /\ exports' = [exps EXCEPT ![e] = [x EXCEPT !.pc = "done"]]
                 /\ downloads' = downloads \cup {[by |-> e, raster |-> cv[x.canvas]]}
                 /\ toasts' = toasts \cup {Toast(e, "success")}
                 /\ isDownloading' = FALSE
       ELSE /\ exports' = [exps EXCEPT ![e] = x]
            /\ isDownloading' = busy
            /\ UNCHANGED <<downloads, toasts>>

\* handleDownload with a populated store, up to its first await
HandleDownload ==
    /\ template \in Templates
    /\ ButtonEnabled(cellImages, isDownloading)
    /\ ~NoContent(cellImages)
    /\ Len(exports) < MaxExports
    /\ \E ctxOk \in BOOLEAN :
         LET e == Len(exports) + 1
             c == Len(canvases) + 1
             x0 == [canvas |-> c, images |-> cellImages, offsets |-> cellOffsets,
                    s |-> scale(template, devicePixelRatio), pc |-> "render",
                    g |-> 1, pending |-> Issued(template, cellImages, 1),
                    errors |-> {}]
         IN  IF ctxOk
             THEN Continue(Append(exports, x0), e, Settle(template, x0),
                           Append(canvases, <<>>), TRUE)
             ELSE \* canvas.getContext('2d') is null: throw, catch, finally
                  /\ exports' = Append(exports,
                        [x0 EXCEPT !.pc = "failed", !.pending = {}, !.errors = {"ctx"}])
                  /\ canvases' = Append(canvases, <<>>)
                  /\ toasts' = toasts \cup {Toast(e, "error")}
                  /\ isDownloading' = FALSE
                  /\ UNCHANGED downloads
    /\ UNCHANGED <<template, devicePixelRatio, store, lastDraws, crop, canvasSize, uiVars, faceVars>>

\* img.onload of a load of export e: drawKey goes on to draw its cell
ImageLoad(e, q) ==
    /\ q \in exports[e].pending
    /\ LET x0 == exports[e]
           p == Layout(template)[q[1]][q[2]]
           img == x0.images[p.key]
           c == ctx(exports, e)
           cv == [canvases EXCEPT
                    ![c] = drawImage(@, e, drawKey(template, x0.s, p), img)]
           x1 == [x0 EXCEPT !.pending = @ \ {q}]
       IN  /\ img.ok
           /\ Continue(exports, e,
                       IF x0.pc = "render" THEN Settle(template, x1) ELSE x1,
                       cv, isDownloading)
    /\ UNCHANGED <<template, devicePixelRatio, store, lastDraws, crop, canvasSize, uiVars, faceVars>>

\* img.onerror resolving the load: drawKey returns without a draw
ImageErrorSwallowed(e, q) ==
    /\ q \in exports[e].pending
    /\ LET x0 == exports[e]
           p == Layout(template)[q[1]][q[2]]
           x1 == [x0 EXCEPT !.pending = @ \ {q}, !.errors = @ \cup {"load"}]
       IN  /\ ~x0.images[p.key].ok
           /\ Continue(exports, e,
                       IF x0.pc = "render" THEN Settle(template, x1) ELSE x1,
                       canvases, isDownloading)
    /\ UNCHANGED <<template, devicePixelRatio, store, lastDraws, crop, canvasSize, uiVars, faceVars>>

\* img.onerror of a load of export e: drawKey rejects, and with it the
\* Promise.all, renderGridToCanvas and the await in handleDownload
ImageError(e, q) ==
    /\ q \in exports[e].pending
    /\ LET x0 == exports[e]
           p == Layout(template)[q[1]][q[2]]
           x1 == [x0 EXCEPT !.pending = @ \ {q}, !.errors = @ \cup {"load"}]
       IN  /\ ~x0.images[p.key].ok
           /\ IF x0.pc = "render"
              THEN /\ exports' = [exports EXCEPT ![e] = [x1 EXCEPT !.pc = "failed"]]
                   /\ toasts' = toasts \cup {Toast(e, "error")}
                   /\ isDownloading' = FALSE
              ELSE /\ exports' = [exports EXCEPT ![e] = x1]
                   /\ UNCHANGED <<toasts, isDownloading>>
    /\ UNCHANGED <<template, devicePixelRatio, store, canvases, downloads,
                   lastDraws, crop, canvasSize, uiVars, faceVars>>

\* the toBlob callback clearing the board after a download
ToBlobClearing(e) ==
    /\ exports[e].pc = "encode"
    /\ \E blob \in BOOLEAN :
         IF blob
         THEN /\ exports' = [exports EXCEPT ![e].pc = "done"]
              /\ downloads' = downloads \cup
                    {[by |-> e, raster |-> canvases[exports[e].canvas]]}
              /\ toasts' = toasts \cup {Toast(e, "success")}
              /\ cellImages' = EmptyMap
              /\ cellOffsets' = EmptyMap
         ELSE /\ exports' = [exports EXCEPT ![e].pc = "failed",
                                            ![e].errors = @ \cup {"blob"}]
              /\ toasts' = toasts \cup {Toast(e, "error")}
              /\ UNCHANGED <<downloads, store>>
    /\ isDownloading' = FALSE
    /\ UNCHANGED <<template, devicePixelRatio, canvases, lastDraws, crop, canvasSize, uiVars, faceVars>>

\* the toBlob callback without the finally of handleDownload: a null blob
\* throws and isDownloading stays as it is
ToBlobNoFinally(e) ==
    /\ exports[e].pc = "encode"
    /\ \E blob \in BOOLEAN :
         IF blob
         THEN /\ exports' = [exports EXCEPT ![e].pc = "done"]
              /\ downloads' = downloads \cup
                    {[by |-> e, raster |-> canvases[exports[e].canvas]]}
              /\ toasts' = toasts \cup {Toast(e, "success")}
              /\ isDownloading' = FALSE
         ELSE /\ exports' = [exports EXCEPT ![e].pc = "failed",
                                            ![e].errors = @ \cup {"blob"}]
              /\ toasts' = toasts \cup {Toast(e, "error")}
              /\ UNCHANGED <<downloads, isDownloading>>
    /\ UNCHANGED <<template, devicePixelRatio, store, canvases, lastDraws, crop, canvasSize, uiVars, faceVars>>

\* the callback of canvas.toBlob, with a blob or with null
ToBlob(e) ==
    /\ exports[e].pc = "encode"
    /\ \E blob \in BOOLEAN :
         IF blob
         THEN /\ exports' = [exports EXCEPT ![e].pc = "done"]
              /\ downloads' = downloads \cup
                    {[by |-> e, raster |-> canvases[exports[e].canvas]]}
              /\ toasts' = toasts \cup {Toast(e, "success")}
         ELSE /\ exports' = [exports EXCEPT ![e].pc = "failed",
                                            ![e].errors = @ \cup {"blob"}]
              /\ toasts' = toasts \cup {Toast(e, "error")}
              /\ UNCHANGED downloads
    /\ isDownloading' = FALSE
    /\ UNCHANGED <<template, devicePixelRatio, store, canvases, lastDraws, crop, canvasSize, uiVars, faceVars>>

NextExport ==
    \/ HandleDownloadNoContent
    \/ HandleDownload
    \/ \E e \in 1..Len(exports) : \E q \in exports[e].pending : ImageLoad(e, q)
    \/ \E e \in 1..Len(exports) : \E q \in exports[e].pending : ImageError(e, q)
    \/ \E e \in 1..Len(exports) : ToBlob(e)

SpecExport == InitExport /\ [][NextExport]_vars

(***************************************************************************)
(* Properties of the geometry (SpecGeom) and of the crop (SpecCover).      *)
(***************************************************************************)
\* two rectangles share a point of positive area
Overlap(a, b) ==
    /\ a.dx < b.dx + b.dw /\ b.dx < a.dx + a.dw
    /\ a.dy < b.dy + b.dh /\ b.dy < a.dy + a.dh

\* b lies in the grid column right after a's last one, on a common row
RowNeighbours(a, b) ==
    /\ a.c + a.cs = b.c
    /\ a.r < b.r + b.rs /\ b.r < a.r + a.rs

\* b lies in the grid row right below a's last one, on a common column
ColNeighbours(a, b) ==
    /\ a.r + a.rs = b.r
    /\ a.c < b.c + b.cs /\ b.c < a.c + a.cs

Drawn == {lastDraws[i] : i \in 1..Len(lastDraws)}

C2_EdgeOnCanvas ==
    \A d \in Drawn :
        /\ d.c = 0 => d.dx = 0
        /\ d.r = 0 => d.dy = 0
        /\ d.c + d.cs = cols(template) => d.dx + d.dw = cols(template) * base(template)
        /\ d.r + d.rs = rows(template) => d.dy + d.dh = rows(template) * base(template)

\* C3: between the facing edges of two adjacent placements lies exactly the
\* gap: gap = 1 unit in 33.tsx, desiredGapPx device pixels (desiredGapPx /
\* scale units) in the scaled templates
C3_ExactGap ==
    LET g == gap(template, scale(template, devicePixelRatio))
    IN  \A a \in Drawn : \A b \in Drawn :
            /\ RowNeighbours(a, b) => (b.dx - (a.dx + a.dw)) * g[2] = g[1]
            /\ ColNeighbours(a, b) => (b.dy - (a.dy + a.dh)) * g[2] = g[1]

FracLe(a, b) == a[1] * b[2] <= b[1] * a[2]
FracEq(a, b) == a[1] * b[2] = b[1] * a[2]
FracAdd(a, b) == <<a[1] * b[2] + b[1] * a[2], a[2] * b[2]>>
\* (n - a) / 2
FracHalfRest(n, a) == <<n * a[2] - a[1], 2 * a[2]>>

\* C4: the crop of drawImageCover lies inside the source image, has the
\* aspect ratio of the destination, and is centred on the axis it cuts
C4_CoverCrop ==
    crop # NoCrop =>
        LET src == crop.src
        IN  /\ FracLe(<<0, 1>>, src.sx) /\ FracLe(<<0, 1>>, src.sy)
            /\ FracLe(FracAdd(src.sx, src.sw), <<crop.iw, 1>>)
            /\ FracLe(FracAdd(src.sy, src.sh), <<crop.ih, 1>>)
            /\ src.sw[1] * src.sh[2] * crop.dh = src.sh[1] * src.sw[2] * crop.dw
            /\ FracEq(src.sx, FracHalfRest(crop.iw, src.sw))
            /\ FracEq(src.sy, FracHalfRest(crop.ih, src.sh))
            /\ FracEq(src.sw, <<crop.iw, 1>>) \/ FracEq(src.sh, <<crop.ih, 1>>)

\* a source wider than its destination, cut on both sides
C4_Witness ==
    /\ crop # NoCrop
    /\ crop.iw * crop.dh > crop.dw * crop.ih
    /\ crop.src.sx[1] > 0
    /\ crop.src.sy[1] = 0

(***************************************************************************)
(* Properties of the export (SpecExport).                                  *)
(***************************************************************************)
Exports == 1..Len(exports)

\* the draws of export e found on a raster
DrawsOn(raster, e) ==
    {[rect |-> raster[i].rect, src |-> raster[i].src] :
        i \in {j \in 1..Len(raster) : raster[j].by = e}}

\* the draws export e has made on its canvas so far
DrawSet(e) == DrawsOn(canvases[exports[e].canvas], e)

\* the draws the store export e started from calls for: one per placement
\* whose key is populated
Expected(e) ==
    {[rect |-> drawKey(template, exports[e].s, p),
      src |-> drawImageCover(exports[e].images[p.key].w, exports[e].images[p.key].h,
                             drawKey(template, exports[e].s, p).dw,
                             drawKey(template, exports[e].s, p).dh)] :
        p \in {q \in Placements(template) : q.key \in DOMAIN exports[e].images}}

\* renderGridToCanvas of export e has returned its canvas
RenderDone(e) == exports[e].pc \in {"encode", "done"} \/ "blob" \in exports[e].errors

\* export e has ended and none of its loads is still in flight
Quiescent(e) == exports[e].pc \in {"done", "failed"} /\ exports[e].pending = {}

\* C5: the PNG is encoded, and the download triggered, only when every
\* drawKey call the export issued has completed: no load is pending and
\* the raster holds the draw of every populated placement
C5_JoinBeforeEncode ==
    /\ \A e \in Exports :
          RenderDone(e) => /\ exports[e].pending = {}
                           /\ Expected(e) \subseteq DrawSet(e)
    /\ \A d \in downloads : Expected(d.by) \subseteq DrawsOn(d.raster, d.by)

\* a file downloaded whose raster holds the draws of two cells
C5_Witness ==
    \E d \in downloads : Cardinality(DrawsOn(d.raster, d.by)) >= 2

\* C6: an export that met a null context, a failed image load or a null
\* blob triggers no download and reports no success
C6_NoDownloadOnFailure ==
    \A e \in Exports :
        exports[e].errors # {} =>
            /\ \A d \in downloads : d.by # e
            /\ Toast(e, "success") \notin toasts
            /\ exports[e].pc = "failed"

\* an export failed by an image load after it had drawn a cell, and an
\* export failed by a null context or a null blob
C6_Witness ==
    /\ \E e \in Exports : /\ "load" \in exports[e].errors
                          /\ DrawSet(e) # {}
    /\ \E e \in Exports : exports[e].errors \cap {"ctx", "blob"} # {}

\* C7: an export of an empty store creates no canvas, leaves isDownloading
\* alone and triggers no download
C7_EmptyStoreNoCanvas ==
    DOMAIN cellImages = {} =>
        /\ canvases = <<>>
        /\ exports = <<>>
        /\ isDownloading = FALSE
        /\ downloads = {}

\* handleDownload has been called on an empty store
C7_Witness ==
    /\ DOMAIN cellImages = {}
    /\ Toast(0, "empty") \in toasts

C9_OwnCanvas ==
    /\ \A c \in 1..Len(canvases) : \A i \in 1..Len(canvases[c]) :
          exports[canvases[c][i].by].canvas = c
    /\ \A e \in Exports : exports[e].canvas = e
    /\ \A e \in Exports : <<exports[e].images, exports[e].offsets>> = store

\* a failed export with a load still in flight, which has drawn a cell,
\* while the next export is rendering and has drawn one too
C9_Witness ==
    /\ Len(exports) = 2
    /\ exports[1].pc = "failed" /\ exports[1].pending # {} /\ DrawSet(1) # {}
    /\ exports[2].pc = "render" /\ exports[2].pending # {} /\ DrawSet(2) # {}

\* C10: whatever the order in which the loads complete, the export has
\* issued the same set of draws when renderGridToCanvas returns, and no two
\* of them overlap, so the raster does not depend on the order
C10_OrderIndependent ==
    \A e \in Exports :
        RenderDone(e) =>
            /\ DrawSet(e) = Expected(e)
            /\ \A a \in DrawSet(e) : \A b \in DrawSet(e) :
                  a # b => ~Overlap(a.rect, b.rect)

\* two cells of one Promise.all drawn against the program order
C10_Witness ==
    \E e \in Exports :
        /\ RenderDone(e)
        /\ Len(canvases[exports[e].canvas]) >= 2
        /\ canvases[exports[e].canvas][1].rect.r = canvases[exports[e].canvas][2].rect.r
        /\ canvases[exports[e].canvas][1].rect.c > canvases[exports[e].canvas][2].rect.c

(***************************************************************************)
(* Properties of the canvas size (SpecGeom).                               *)
(***************************************************************************)
\* C11: every template with the fixed 100px cell base exports a canvas of
\* round(cols * 100 * scale) by round(rows * 100 * scale) pixels, where
\* scale = min(4, max(2, devicePixelRatio))
C11_CanvasSize ==
    canvasSize # NoCanvas =>
        LET clamp == Min(16, Max(8, devicePixelRatio))
        IN  canvasSize = [width |-> MathRound(cols(template) * 100 * clamp, 4),
                          height |-> MathRound(rows(template) * 100 * clamp, 4)]

(***************************************************************************)
(* Properties of the keys of an export (SpecExport).                       *)
(***************************************************************************)
\* C12: within one export no key is used for two different (row, col)
\* slots: two drawKey calls with the same key name the same placement
C12_OneSlotPerKey ==
    \A e \in Exports :
        \A p \in Called(template, exports[e]) :
            \A q \in Called(template, exports[e]) :
                p.key = q.key => (p.r = q.r /\ p.c = q.c)

(***************************************************************************)
(* Properties of the uploaded keys and of isDownloading (SpecExport).      *)
(***************************************************************************)
\* handleDownload of export e has not returned yet
InFlight(e) == exports[e].pc \in {"render", "encode"}

\* C26: every key an upload can populate is drawn by the template's export:
\* an export that passed the non-empty check and ended with a download has
\* drawn the image of each key of its store, so at least one image
C26_UploadsDrawn ==
    \A e \in Exports :
        exports[e].pc = "done" =>
            /\ \A k \in DOMAIN exports[e].images :
                   \E d \in DrawSet(e) : d.rect.key = k
            /\ DrawSet(e) # {}

\* C27: isDownloading is true exactly while an export is in flight: from
\* before its rendering starts until it has finished, with a download or
\* with an exception
C27_BusyWhileInFlight ==
    template \in Templates =>
        (isDownloading <=> \E e \in Exports : InFlight(e))

\* an export has thrown, isDownloading went back to false and the next
\* export is in flight
C27_Witness ==
    /\ isDownloading
    /\ \E e \in Exports : exports[e].pc = "failed"
    /\ \E e \in Exports : InFlight(e)

(***************************************************************************)
(* Uploads and drags: handleCellActivate, handleImageUpload, the           *)
(* FileReader's onload, startDrag and its onMove / onUp closures, the      *)
(* animation frame and the timer of onUp.                                  *)
(***************************************************************************)
\* FileReaders one component creates
MaxUploads == 2
\* drags whose listeners or timers are outstanding at one time
MaxDrags == 2

\* width and height of a cell's bounding rect, in CSS pixels
ElSize == 100

\* the files the user can choose in the dialog; accept="image/*" is a hint
\* of the dialog, which still offers every file
Files == { [name |-> "a.png", type |-> "image/png"],
           [name |-> "b.jpg", type |-> "image/jpeg"],
           [name |-> "c.txt", type |-> "text/plain"] }

\* file.type.startsWith('image/'), with every type accepted
startsWithAny(type, prefix) == TRUE

\* file.type.startsWith('image/')
startsWith(type, prefix) ==
    /\ Len(type) >= Len(prefix)
    /\ SubSeq(type, 1, Len(prefix)) = prefix

\* reader.result of readAsDataURL(file)
readAsDataURL(file) == "data:" \o file.type \o ";base64," \o file.name

\* the cells the pointer acts on: the first cell of the top row and the
\* spanning centre cell
UiKeysOf ==
    [t \in Templates |->
        {Layout(t)[1][1].key} \cup {p.key : p \in {q \in Placements(t) : q.rs > 1}}]

UiKeys(t) == UiKeysOf[t]

\* pageX / pageY of the pointer at mousedown, and where it moves to: right
\* by one cell width and up by 0.7 of the cell height; the drags of
\* SpecDrag also move left and down by one cell size
StartPoint == [x |-> 10, y |-> 10]

MovePoints == { [x |-> 110, y |-> -60] }

DragPoints == MovePoints \cup { [x |-> -90, y |-> 110] }

\* the components whose uploads and drags are explored; 75.tsx and the
\* grid-45 component of 59.tsx have the handlers of 33.tsx
StoreTemplates == {"grid-33", "grid-59"}

InitStore ==
    /\ template \in StoreTemplates
    /\ devicePixelRatio = 8
    /\ NoStore /\ NoExport /\ NoUi /\ NoFace
    /\ lastDraws = <<>>
    /\ crop = NoCrop
    /\ canvasSize = NoCanvas

\* a map with key k set to v, as in {...prev, [k]: v}
Spread(prev, k, v) ==
    [j \in DOMAIN prev \cup {k} |-> IF j = k THEN v ELSE prev[j]]

\* handleCellActivate(key): a click that ends a drag only clears `moved`,
\* any other click selects the cell and opens the file dialog
HandleCellActivate(key) ==
    /\ ~fileDialog
    /\ IF dragRef # Null /\ dragRef.moved
       THEN /\ dragRef' = [dragRef EXCEPT !.moved = FALSE]
            /\ UNCHANGED <<selectedCell, fileDialog>>
       ELSE /\ selectedCell' = handleCellClick(template, key)
            /\ fileDialog' = TRUE
            /\ UNCHANGED dragRef
    /\ UNCHANGED <<template, devicePixelRatio, cellImages, cellOffsets, exportVars,
                   lastDraws, crop, canvasSize, readers, lastUpload, readsStarted, pendingOffsetRef, rafIdRef, frames, lastMove,
                   listeners, timers, faceVars>>

\* the dialog is dismissed: no change event
DialogCancel ==
    /\ fileDialog
    /\ fileDialog' = FALSE
    /\ UNCHANGED <<template, devicePixelRatio, cellImages, cellOffsets, exportVars,
                   lastDraws, crop, canvasSize, selectedCell, readers, lastUpload, readsStarted, dragRef,
                   pendingOffsetRef, rafIdRef, frames, lastMove, listeners, timers, faceVars>>

\* handleImageUpload: the change event of the file input with one file
HandleImageUpload(file) ==
    /\ fileDialog
    /\ fileDialog' = FALSE
    /\ IF selectedCell = "null"
       THEN UNCHANGED <<selectedCell, readers, lastUpload, readsStarted, toasts>>
       ELSE IF ~startsWith(file.type, "image/")
       THEN /\ toasts' = toasts \cup {Toast(0, "not-an-image")}
            /\ UNCHANGED <<selectedCell, readers, lastUpload, readsStarted>>
       ELSE /\ readsStarted < MaxUploads
            /\ readsStarted' = readsStarted + 1
            /\ readers' = Append(readers, [key |-> selectedCell, file |-> file])
            /\ lastUpload' = Spread(lastUpload, selectedCell, file)
            /\ selectedCell' = "null"
            /\ UNCHANGED toasts
    /\ UNCHANGED <<template, devicePixelRatio, cellImages, cellOffsets, isDownloading,
                   exports, canvases, downloads, lastDraws, crop, canvasSize, dragRef,
                   pendingOffsetRef, rafIdRef, frames, lastMove, listeners, timers, faceVars>>

\* reader.onload that also resets the offset of the cell
ReaderLoadResetting(i) ==
    /\ i \in 1..Len(readers)
    /\ readers' = SubSeq(readers, 1, i - 1) \o SubSeq(readers, i + 1, Len(readers))
    /\ cellImages' = Spread(cellImages, readers[i].key, readAsDataURL(readers[i].file))
    /\ cellOffsets' = [k \in DOMAIN cellOffsets \ {readers[i].key} |-> cellOffsets[k]]
    /\ toasts' = toasts \cup {Toast(0, "uploaded")}
    /\ UNCHANGED <<template, devicePixelRatio, isDownloading, exports,
                   canvases, downloads, lastDraws, crop, canvasSize, selectedCell,
                   fileDialog, lastUpload, readsStarted, dragRef, pendingOffsetRef, rafIdRef, frames, lastMove, listeners, timers,
                   faceVars>>

\* reader.onload of the i-th FileReader: the reads complete in any order
ReaderLoad(i) ==
    /\ i \in 1..Len(readers)
    /\ readers' = SubSeq(readers, 1, i - 1) \o SubSeq(readers, i + 1, Len(readers))
    /\ cellImages' = Spread(cellImages, readers[i].key, readAsDataURL(readers[i].file))
    /\ toasts' = toasts \cup {Toast(0, "uploaded")}
    /\ UNCHANGED <<template, devicePixelRatio, cellOffsets, isDownloading, exports,
                   canvases, downloads, lastDraws, crop, canvasSize, selectedCell,
                   fileDialog, lastUpload, readsStarted, dragRef, pendingOffsetRef, rafIdRef, frames, lastMove, listeners, timers,
                   faceVars>>

\* startDrag(e, key): mousedown or touchstart on a cell
StartDrag(key) ==
    /\ ~fileDialog
    /\ listeners + timers < MaxDrags
    /\ IF key \notin DOMAIN cellImages
       THEN UNCHANGED <<dragRef, listeners>>
       ELSE LET current == IF key \in DOMAIN cellOffsets
                           THEN cellOffsets[key] ELSE [x |-> 50, y |-> 50]
            IN  /\ dragRef' = [key |-> key,
                               startX |-> StartPoint.x, startY |-> StartPoint.y,
                               startOffsetX |-> current.x, startOffsetY |-> current.y,
                               elW |-> ElSize, elH |-> ElSize, moved |-> FALSE]
                /\ listeners' = listeners + 1
    /\ UNCHANGED <<template, devicePixelRatio, cellImages, cellOffsets, exportVars,
                   lastDraws, crop, canvasSize, selectedCell, fileDialog, readers, lastUpload, readsStarted,
                   pendingOffsetRef, rafIdRef, frames, lastMove, timers, faceVars>>

\* Math.min(100, v): the lower bound is missing
clampUpper(v) == Min(100, v)

\* Math.max(0, Math.min(100, v))
clamp(v) == Max(0, Min(100, v))

\* the clamped offset onMove computes for a pointer position
offsetOf(drag, point) ==
    LET dxPct == ((point.x - drag.startX) * 100) \div drag.elW
        dyPct == ((point.y - drag.startY) * 100) \div drag.elH
    IN  [x |-> clamp(drag.startOffsetX + dxPct), y |-> clamp(drag.startOffsetY + dyPct)]

\* requestAnimationFrame returns a handle no pending callback has
NewFrame == CHOOSE id \in 1..(Cardinality(frames) + 1) : id \notin frames

\* onMove that asks for a frame on every move event
OnMoveUnthrottled(point) ==
    /\ ~fileDialog
    /\ listeners > 0
    /\ dragRef # Null
    /\ dragRef' = [dragRef EXCEPT !.moved = TRUE]
    /\ pendingOffsetRef' = [key |-> dragRef.key, x |-> offsetOf(dragRef, point).x,
                            y |-> offsetOf(dragRef, point).y]
    /\ lastMove' = [point |-> point, drag |-> dragRef']
    /\ rafIdRef' = NewFrame /\ frames' = frames \cup {NewFrame}
    /\ UNCHANGED <<template, devicePixelRatio, cellImages, cellOffsets, exportVars,
                   lastDraws, crop, canvasSize, selectedCell, fileDialog, readers, lastUpload, readsStarted,
                   listeners, timers, faceVars>>

\* onMove: mousemove or touchmove on the window while a drag's listeners
\* are registered; every registered onMove computes the same pending
\* offset, and only the first finds rafIdRef null
OnMove(point) ==
    /\ ~fileDialog
    /\ listeners > 0
    /\ dragRef # Null
    /\ dragRef' = [dragRef EXCEPT !.moved = TRUE]
    /\ pendingOffsetRef' = [key |-> dragRef.key, x |-> offsetOf(dragRef, point).x,
                            y |-> offsetOf(dragRef, point).y]
    /\ lastMove' = [point |-> point, drag |-> dragRef']
    /\ IF rafIdRef = 0
       THEN rafIdRef' = NewFrame /\ frames' = frames \cup {NewFrame}
       ELSE UNCHANGED <<rafIdRef, frames>>
    /\ UNCHANGED <<template, devicePixelRatio, cellImages, cellOffsets, exportVars,
                   lastDraws, crop, canvasSize, selectedCell, fileDialog, readers, lastUpload, readsStarted,
                   listeners, timers, faceVars>>

\* the requestAnimationFrame callback of onMove
Frame(id) ==
    /\ id \in frames
    /\ frames' = frames \ {id}
    /\ IF pendingOffsetRef # Null
       THEN cellOffsets' = Spread(cellOffsets, pendingOffsetRef.key,
                                  [x |-> pendingOffsetRef.x, y |-> pendingOffsetRef.y])
       ELSE UNCHANGED cellOffsets
    /\ rafIdRef' = 0
    /\ UNCHANGED <<template, devicePixelRatio, cellImages, exportVars, lastDraws, crop,
                   canvasSize, selectedCell, fileDialog, readers, lastUpload, readsStarted, dragRef,
                   pendingOffsetRef, lastMove, listeners, timers, faceVars>>

\* onUp: mouseup or touchend on the window; every registered onUp removes
\* its listeners and sets its timer, the first cancels the frame
OnUp ==
    /\ ~fileDialog
    /\ listeners > 0
    /\ listeners' = 0
    /\ frames' = frames \ {rafIdRef}
    /\ rafIdRef' = 0
    /\ timers' = timers + listeners
    /\ UNCHANGED <<template, devicePixelRatio, cellImages, cellOffsets, exportVars,
                   lastDraws, crop, canvasSize, selectedCell, fileDialog, readers, lastUpload, readsStarted,
                   dragRef, pendingOffsetRef, lastMove, faceVars>>

\* the setTimeout(..., 0) callback of onUp
TimerFire ==
    /\ timers > 0
    /\ timers' = timers - 1
    /\ IF dragRef # Null
       THEN dragRef' = [dragRef EXCEPT !.key = "null"]
       ELSE UNCHANGED dragRef
    /\ UNCHANGED <<template, devicePixelRatio, cellImages, cellOffsets, exportVars,
                   lastDraws, crop, canvasSize, selectedCell, fileDialog, readers, lastUpload, readsStarted,
                   pendingOffsetRef, rafIdRef, frames, lastMove, listeners, faceVars>>

NextStore ==
    \/ \E key \in UiKeys(template) : HandleCellActivate(key)
    \/ DialogCancel
    \/ \E file \in Files : HandleImageUpload(file)
    \/ \E i \in 1..MaxUploads : ReaderLoad(i)
    \/ \E key \in UiKeys(template) : StartDrag(key)
    \/ \E point \in MovePoints : OnMove(point)
    \/ \E id \in frames : Frame(id)
    \/ OnUp
    \/ TimerFire

SpecStore == InitStore /\ [][NextStore]_vars

\* The drags of 33.tsx with one image file and two pointer positions.
DragFiles == {f \in Files : f.name = "a.png"}

InitDrag ==
    /\ template = "grid-33"
    /\ devicePixelRatio = 8
    /\ NoStore /\ NoExport /\ NoUi /\ NoFace
    /\ lastDraws = <<>>
    /\ crop = NoCrop
    /\ canvasSize = NoCanvas

NextDrag ==
    \/ \E key \in UiKeys(template) : HandleCellActivate(key)
    \/ DialogCancel
    \/ \E file \in DragFiles : HandleImageUpload(file)
    \/ \E i \in 1..MaxUploads : ReaderLoad(i)
    \/ \E key \in UiKeys(template) : StartDrag(key)
    \/ \E point \in DragPoints : OnMove(point)
    \/ \E id \in frames : Frame(id)
    \/ OnUp
    \/ TimerFire

SpecDrag == InitDrag /\ [][NextDrag]_vars

(***************************************************************************)
(* Properties of the image and offset maps (SpecStore).                    *)
(***************************************************************************)
\* C13: every key of cellOffsets is a key of cellImages, after any sequence
\* of uploads, drag starts, moves, releases and animation frames
C13_OffsetsHaveImages == DOMAIN cellOffsets \subseteq DOMAIN cellImages

\* C14: every stored offset has x and y in [0, 100]; a move whose raw
\* offset is (150, -20) is stored as (100, 0)
C14_OffsetsClamped ==
    /\ \A k \in DOMAIN cellOffsets :
           /\ cellOffsets[k].x >= 0 /\ cellOffsets[k].x <= 100
           /\ cellOffsets[k].y >= 0 /\ cellOffsets[k].y <= 100
    /\ pendingOffsetRef # Null =>
           /\ pendingOffsetRef.x >= 0 /\ pendingOffsetRef.x <= 100
           /\ pendingOffsetRef.y >= 0 /\ pendingOffsetRef.y <= 100
    /\ [x |-> clamp(150), y |-> clamp(-20)] = [x |-> 100, y |-> 0]

\* a drag that started at the default (50, 50) and moved by (+100%, -70%),
\* raw offset (150, -20), has stored (100, 0) for its cell
C14_Witness ==
    /\ dragRef # Null
    /\ dragRef.startOffsetX = 50 /\ dragRef.startOffsetY = 50
    /\ dragRef.key \in DOMAIN cellImages
    /\ dragRef.key \in DOMAIN cellOffsets
    /\ cellOffsets[dragRef.key] = [x |-> 100, y |-> 0]

\* C15: after two uploads to the same key with different files, once both
\* reads have completed the key holds the image of the second file, in
\* whichever order the two reads completed
C15_SecondUploadWins ==
    \A k \in DOMAIN lastUpload :
        (\A i \in 1..Len(readers) : readers[i].key # k) =>
            /\ k \in DOMAIN cellImages
            /\ cellImages[k] = readAsDataURL(lastUpload[k])

\* C16: the step in which a file read to key k completes changes only
\* cellImages[k]: every other key's image and every stored offset, that of
\* k included, stay as they were, whatever other reads are in flight
C16_UploadFrame ==
    [][Len(readers') < Len(readers) =>
          \E i \in 1..Len(readers) :
              /\ readers' = SubSeq(readers, 1, i - 1) \o SubSeq(readers, i + 1, Len(readers))
              /\ cellOffsets' = cellOffsets
              /\ DOMAIN cellImages' = DOMAIN cellImages \cup {readers[i].key}
              /\ cellImages'[readers[i].key] = readAsDataURL(readers[i].file)
              /\ \A j \in DOMAIN cellImages \ {readers[i].key} :
                     cellImages'[j] = cellImages[j]]_vars

\* of two reads one has completed for a key that has a stored offset, and
\* its image is there, while the other read is still in flight
C16_Witness ==
    /\ readsStarted = 2
    /\ Len(readers) = 1
    /\ \E k \in DOMAIN cellOffsets \cap DOMAIN cellImages :
           /\ k # "null"
           /\ cellImages[k] = readAsDataURL(lastUpload[k])
           /\ cellOffsets[k] = [x |-> 100, y |-> 0]

\* C17: choosing a file whose MIME type does not start with "image/"
\* leaves cellImages and cellOffsets unchanged and starts no file read
C17_NonImageRejected ==
    [][\A file \in Files :
          (SubSeq(file.type, 1, 6) # "image/" /\ HandleImageUpload(file)) =>
              /\ cellImages' = cellImages
              /\ cellOffsets' = cellOffsets
              /\ readers' = readers
              /\ readsStarted' = readsStarted]_vars

\* a text file was chosen for a selected cell: the error toast is shown, the
\* dialog is closed and the cell is still selected
C17_Witness ==
    /\ Toast(0, "not-an-image") \in toasts
    /\ ~fileDialog
    /\ selectedCell # "null"
    /\ \A i \in 1..Len(readers) : readers[i].file.type # "text/plain"

(***************************************************************************)
(* Properties of the drags (SpecDrag).                                     *)
(***************************************************************************)
\* the step is the callback of an animation frame
FrameRan == listeners' = listeners /\ \E id \in frames : frames' = frames \ {id}

\* the step is the release of the pointer
Released == listeners > 0 /\ listeners' = 0

\* C28: at most one animation frame callback is pending, however many move
\* events arrive; when it runs it writes one offset, the one computed from
\* the most recent move event, and clears rafIdRef
C28_OneFrame ==
    /\ [](Cardinality(frames) <= 1)
    /\ [][FrameRan =>
            /\ lastMove # Null
            /\ cellOffsets' = Spread(cellOffsets, lastMove.drag.key,
                                     offsetOf(lastMove.drag, lastMove.point))
            /\ rafIdRef' = 0]_vars

\* a frame has stored the offset of a move to the second position while the
\* drag goes on, and no frame is pending
C28_Witness ==
    /\ listeners > 0
    /\ frames = {}
    /\ rafIdRef = 0
    /\ lastMove # Null
    /\ lastMove.point \notin MovePoints
    /\ lastMove.drag.key \in DOMAIN cellOffsets
    /\ cellOffsets[lastMove.drag.key] = [x |-> 0, y |-> 100]

\* C24: when a drag that has moved ends (mouseup / touchend), cellOffsets
\* holds for the dragged key the clamped offset computed from the drag's
\* last move event
C24_ReleaseKeepsLastMove ==
    [][(Released /\ dragRef # Null /\ dragRef.moved /\ lastMove # Null) =>
           /\ lastMove.drag.key \in DOMAIN cellOffsets'
           /\ cellOffsets'[lastMove.drag.key]
                  = offsetOf(lastMove.drag, lastMove.point)]_vars

\* C25: activating a cell that was not dragged since its last pointer-down
\* opens the file picker for that cell, whatever `moved` an earlier drag of
\* another cell has left; stated for the cells without an image, which
\* startDrag never drags
C25_ActivationOpensPicker ==
    [][\A key \in UiKeys(template) :
           (key \notin DOMAIN cellImages /\ HandleCellActivate(key)) =>
               (fileDialog' /\ selectedCell' = key)]_vars

(***************************************************************************)
(* The face cropper: ensureModelsLoaded and centerCropFace.  A call is a   *)
(* record with its position (pc): "models" while it awaits the models      *)
(* promise, "decode" while it awaits bufferToImage, "detect" while it      *)
(* awaits the detector, "done" once it has returned or thrown.             *)
(***************************************************************************)
\* calls of ensureModelsLoaded and centerCropFace in one behaviour
MaxCalls == 3

\* what a call has produced so far
Pending == [kind |-> "pending", of |-> "none"]

\* an ensureModelsLoaded call resolved
Void == [kind |-> "void", of |-> "none"]

\* a rejected promise: the error propagates to the caller
Thrown(what) == [kind |-> "throw", of |-> what]

\* URL.createObjectURL(imgFile): a blob: URL that refers to the file itself
createObjectURL(imgFile) == [kind |-> "blob", of |-> imgFile.name]

\* canvas.toDataURL('image/png') of the canvas the image was drawn on
toDataURL(imgFile) == [kind |-> "png", of |-> imgFile.name]

\* if (!modelsLoadedPromise), with the memo ignored
needsLoadAlways(promise) == TRUE

\* if (!modelsLoadedPromise), with a rejected promise taken for no promise
needsLoadRetry(promise) == promise \in {"null", "rejected"}

\* if (!modelsLoadedPromise)
needsLoad(promise) == promise = "null"

\* ensureModelsLoaded() up to its return: the promise it returns is the
\* loadsStarted'-th one created
ensureModelsLoaded ==
    IF needsLoad(modelsLoadedPromise)
    THEN /\ modelsLoadedPromise' = "pending"
         /\ loadsStarted' = loadsStarted + 1
    ELSE UNCHANGED <<modelsLoadedPromise, loadsStarted>>

\* a caller other than centerCropFace awaits ensureModelsLoaded()
CallEnsureModelsLoaded ==
    /\ Len(calls) < MaxCalls
    /\ ensureModelsLoaded
    /\ calls' = Append(calls, [fn |-> "ensureModelsLoaded", file |-> "none",
                               pc |-> "models", promise |-> loadsStarted',
                               detector |-> "not-called", result |-> Pending])
    /\ UNCHANGED <<template, devicePixelRatio, store, exportVars, lastDraws, crop,
                   canvasSize, uiVars, framing>>

\* centerCropFace(imgFile, ...) up to its first await
CallCenterCropFace(imgFile) ==
    /\ Len(calls) < MaxCalls
    /\ ensureModelsLoaded
    /\ calls' = Append(calls, [fn |-> "centerCropFace", file |-> imgFile.name,
                               pc |-> "models", promise |-> loadsStarted',
                               detector |-> "not-called", result |-> Pending])
    /\ UNCHANGED <<template, devicePixelRatio, store, exportVars, lastDraws, crop,
                   canvasSize, uiVars, framing>>

\* both loadFromUri promises resolve
ModelsLoad ==
    /\ modelsLoadedPromise = "pending"
    /\ modelsLoadedPromise' = "fulfilled"
    /\ UNCHANGED <<template, devicePixelRatio, store, exportVars, lastDraws, crop,
                   canvasSize, uiVars, framing, loadsStarted, calls>>

\* one loadFromUri promise rejects: the catch logs and rethrows
ModelsError ==
    /\ modelsLoadedPromise = "pending"
    /\ modelsLoadedPromise' = "rejected"
    /\ UNCHANGED <<template, devicePixelRatio, store, exportVars, lastDraws, crop,
                   canvasSize, uiVars, framing, loadsStarted, calls>>

\* the catch of centerCropFace around await ensureModelsLoaded()
modelsCatch(imgFile) == createObjectURL(imgFile)

FileNamed(name) == CHOOSE f \in Files : f.name = name

\* call i continues after its await of the models promise
AwaitModels(i) ==
    /\ i \in 1..Len(calls)
    /\ calls[i].pc = "models"
    /\ modelsLoadedPromise \in {"fulfilled", "rejected"}
    /\ calls' =
         [calls EXCEPT ![i] =
            IF calls[i].fn = "ensureModelsLoaded"
            THEN [@ EXCEPT !.pc = "done",
                           !.result = IF modelsLoadedPromise = "fulfilled"
                                      THEN Void ELSE Thrown("models")]
            ELSE IF modelsLoadedPromise = "rejected"
            THEN [@ EXCEPT !.pc = "done",
                           !.result = modelsCatch(FileNamed(calls[i].file))]
            ELSE [@ EXCEPT !.pc = "decode"]]
    /\ UNCHANGED <<template, devicePixelRatio, store, exportVars, lastDraws, crop,
                   canvasSize, uiVars, framing, modelsLoadedPromise, loadsStarted>>

\* what bufferToImage and the downscaling make of a file: the decode fails,
\* or the image needs no downscaling, or it is downscaled, or it needs
\* downscaling and the canvas has no 2D context
Decodings(imgFile) ==
    IF startsWith(imgFile.type, "image/")
    THEN {"fail", "small", "big", "big-noctx"}
    ELSE {"fail"}

\* the decode step with a failed decode swallowed: the original is returned
DecodeSwallowing(i, decoding) ==
    /\ i \in 1..Len(calls)
    /\ calls[i].pc = "decode"
    /\ decoding \in Decodings(FileNamed(calls[i].file))
    /\ calls' =
         [calls EXCEPT ![i] =
            CASE decoding \in {"fail", "big-noctx"} ->
                   [@ EXCEPT !.pc = "done",
                             !.result = createObjectURL(FileNamed(calls[i].file))]
              [] OTHER -> [@ EXCEPT !.pc = "detect"]]
    /\ UNCHANGED <<template, devicePixelRatio, store, exportVars, lastDraws, crop,
                   canvasSize, uiVars, framing, modelsLoadedPromise, loadsStarted>>

\* call i continues after await faceapi.bufferToImage(imgFile), up to the
\* await of the detector
Decode(i, decoding) ==
    /\ i \in 1..Len(calls)
    /\ calls[i].pc = "decode"
    /\ decoding \in Decodings(FileNamed(calls[i].file))
    /\ calls' =
         [calls EXCEPT ![i] =
            CASE decoding = "fail" ->
                   [@ EXCEPT !.pc = "done", !.result = Thrown("decode")]
              [] decoding = "big-noctx" ->
                   [@ EXCEPT !.pc = "done", !.result = Thrown("2D context not available")]
              [] OTHER -> [@ EXCEPT !.pc = "detect"]]
    /\ UNCHANGED <<template, devicePixelRatio, store, exportVars, lastDraws, crop,
                   canvasSize, uiVars, framing, modelsLoadedPromise, loadsStarted>>

\* the outcomes of detectAllFaces(...).withFaceLandmarks(): it throws, it
\* finds no face, it finds faces, it finds faces and the output canvas has
\* no 2D context
Detections == {"throws", "none", "faces", "faces-noctx"}

\* the catch around the detector and the empty-detections branch, throwing
detectorFallbackThrow(imgFile) == Thrown("detector")

\* the catch around the detector and the empty-detections branch
detectorFallback(imgFile) == createObjectURL(imgFile)

\* call i continues after the await of the detector, to its return
Detect(i, detection) ==
    /\ i \in 1..Len(calls)
    /\ calls[i].pc = "detect"
    /\ calls' =
         [calls EXCEPT ![i] =
            [@ EXCEPT !.pc = "done",
                      !.detector = detection,
                      !.result =
                         CASE detection \in {"throws", "none"} ->
                                detectorFallback(FileNamed(calls[i].file))
                           [] detection = "faces-noctx" ->
                                Thrown("2D context not available")
                           [] OTHER -> toDataURL(FileNamed(calls[i].file))]]
    /\ UNCHANGED <<template, devicePixelRatio, store, exportVars, lastDraws, crop,
                   canvasSize, uiVars, framing, modelsLoadedPromise, loadsStarted>>

\* the cropper is a module of its own: no template component takes part
InitFace ==
    /\ template = "grid-33"
    /\ devicePixelRatio = 8
    /\ NoStore /\ NoExport /\ NoUi /\ NoFace
    /\ lastDraws = <<>>
    /\ crop = NoCrop
    /\ canvasSize = NoCanvas

NextFace ==
    \/ CallEnsureModelsLoaded
    \/ \E imgFile \in Files : CallCenterCropFace(imgFile)
    \/ ModelsLoad
    \/ ModelsError
    \/ \E i \in 1..MaxCalls : AwaitModels(i)
    \/ \E i \in 1..MaxCalls : \E decoding \in {"fail", "small", "big", "big-noctx"} :
          Decode(i, decoding)
    \/ \E i \in 1..MaxCalls : \E detection \in Detections : Detect(i, detection)

SpecFace == InitFace /\ [][NextFace]_vars

(***************************************************************************)
(* Properties of the face cropper (SpecFace).                              *)
(***************************************************************************)
\* C18: however many ensureModelsLoaded and centerCropFace calls are made,
\* one after another or while the load is in flight, the model load is
\* started at most once and every caller awaits that one promise
C18_LoadOnce ==
    /\ loadsStarted <= 1
    /\ \A i \in 1..Len(calls) : calls[i].promise = 1
    /\ (modelsLoadedPromise = "null") = (loadsStarted = 0)

\* a centerCropFace call and an ensureModelsLoaded call both wait for the
\* load that is in flight, after an earlier call started it
C18_Witness ==
    /\ modelsLoadedPromise = "pending"
    /\ Len(calls) = 3
    /\ \A i \in 1..3 : calls[i].pc = "models"
    /\ \E i \in 1..3 : calls[i].fn = "ensureModelsLoaded"
    /\ \E i \in 1..3 : calls[i].fn = "centerCropFace"

\* C19: once the model load has failed it is never retried: no later step
\* starts a load or replaces the rejected promise, and every centerCropFace
\* call that returns afterwards returns the original image
C19_FailureSticky ==
    [][modelsLoadedPromise = "rejected" =>
          /\ modelsLoadedPromise' = "rejected"
          /\ loadsStarted' = loadsStarted
          /\ \A i \in 1..Len(calls') :
                 (calls'[i].fn = "centerCropFace" /\ calls'[i].pc # "models") =>
                     /\ calls'[i].pc = "done"
                     /\ calls'[i].result = createObjectURL(FileNamed(calls'[i].file))]_vars

\* the load failed while one centerCropFace call was waiting for it, and a
\* call made after the failure has returned the original image as well
C19_Witness ==
    /\ modelsLoadedPromise = "rejected"
    /\ loadsStarted = 1
    /\ Len(calls) = 3
    /\ \A i \in 2..3 :
           /\ calls[i].fn = "centerCropFace"
           /\ calls[i].pc = "done"
           /\ calls[i].result = createObjectURL(FileNamed(calls[i].file))
    /\ calls[1].fn = "ensureModelsLoaded"
    /\ calls[1].result = Thrown("models")
    /\ calls[2].file # calls[3].file

\* C20: a centerCropFace call whose detector threw or returned no detection
\* has returned a reference to the unmodified original file, and has not
\* thrown
C20_DetectorFallback ==
    \A i \in 1..Len(calls) :
        calls[i].detector \in {"throws", "none"} =>
            /\ calls[i].pc = "done"
            /\ calls[i].result = [kind |-> "blob", of |-> calls[i].file]
            /\ calls[i].result.kind # "throw"

\* one call's detector threw and another call's detector found no face,
\* after the models had loaded
C20_Witness ==
    /\ modelsLoadedPromise = "fulfilled"
    /\ \E i \in 1..Len(calls) : calls[i].detector = "throws" /\ calls[i].pc = "done"
    /\ \E i \in 1..Len(calls) : calls[i].detector = "none" /\ calls[i].pc = "done"

\* the steps of a call in their order
Rank(pc) ==
    CASE pc = "models" -> 1 [] pc = "decode" -> 2 [] pc = "detect" -> 3 [] pc = "done" -> 4

\* C21 as stated: every centerCropFace call that has ended has returned the
\* rendered PNG (Success), returned the original (Fallback) or thrown the
\* decode failure (DecodeError); no other outcome is reachable
C21_ThreeOutcomes ==
    \A i \in 1..Len(calls) :
        (calls[i].fn = "centerCropFace" /\ calls[i].pc = "done") =>
            \/ calls[i].result = toDataURL(FileNamed(calls[i].file))
            \/ calls[i].result = createObjectURL(FileNamed(calls[i].file))
            \/ calls[i].result = Thrown("decode")

\* C21 amended: a call only moves forward through its steps, and it ends in
\* one of four outcomes: Fallback from the models step; DecodeError or the
\* propagated "2D context not available" from the decode step; Success,
\* Fallback or "2D context not available" from the detect step
C21_FourOutcomes ==
    [][\A i \in 1..Len(calls') :
          /\ i <= Len(calls) =>
                \/ calls'[i] = calls[i]
                \/ Rank(calls'[i].pc) > Rank(calls[i].pc)
          /\ (i <= Len(calls) /\ calls'[i].fn = "centerCropFace"
                /\ calls[i].pc # "done" /\ calls'[i].pc = "done") =>
                LET f == FileNamed(calls[i].file)
                    r == calls'[i].result
                IN  CASE calls[i].pc = "models" -> r = createObjectURL(f)
                      [] calls[i].pc = "decode" ->
                           r \in {Thrown("decode"), Thrown("2D context not available")}
                      [] calls[i].pc = "detect" ->
                           r \in {toDataURL(f), createObjectURL(f),
                                  Thrown("2D context not available")}
          /\ calls'[i].pc # "done" => calls'[i].result = Pending]_vars

\* three calls have ended: one with the rendered PNG, one with the decode
\* failure and one with the missing 2D context
C21_Witness ==
    /\ \E i \in 1..Len(calls) : calls[i].pc = "done" /\ calls[i].result.kind = "png"
    /\ \E i \in 1..Len(calls) : calls[i].pc = "done" /\ calls[i].result = Thrown("decode")
    /\ \E i \in 1..Len(calls) :
           calls[i].pc = "done" /\ calls[i].result = Thrown("2D context not available")

(***************************************************************************)
(* The framing arithmetic of centerCropFace: downscaling for detection,    *)
(* the choice of the detection, the rescaled box and the transform of the  *)
(* output canvas.  Numbers that are not integers are exact fractions in    *)
(* lowest terms; the one result that rounding to doubles changes, the      *)
(* Math.round of the downscaled height, is computed as doubles compute it. *)
(***************************************************************************)
\* detections the detector returns for one image
MaxFaces == 2

MAX_SIZE == 640

RECURSIVE GCD(_, _)
GCD(a, b) == IF b = 0 THEN a ELSE GCD(b, a % b)

Abs(n) == IF n < 0 THEN 0 - n ELSE n

\* the fraction n / d (d # 0) in lowest terms with a positive denominator
Q(n, d) ==
    LET g == GCD(Abs(n), Abs(d))
        sgn == IF d < 0 THEN 0 - 1 ELSE 1
    IN  <<(sgn * n) \div g, (sgn * d) \div g>>

QMul(a, b) ==
    LET g1 == GCD(Abs(a[1]), b[2])
        g2 == GCD(Abs(b[1]), a[2])
    IN  Q((a[1] \div g1) * (b[1] \div g2), (a[2] \div g2) * (b[2] \div g1))

QDiv(a, b) == QMul(a, Q(b[2], b[1]))

QAdd(a, b) ==
    LET g == GCD(a[2], b[2])
    IN  Q(a[1] * (b[2] \div g) + b[1] * (a[2] \div g), (a[2] \div g) * b[2])

QSub(a, b) == QAdd(a, <<0 - b[1], b[2]>>)

QLe(a, b) ==
    LET g == GCD(a[2], b[2])
    IN  a[1] * (b[2] \div g) <= b[1] * (a[2] \div g)

QMin(a, b) == IF QLe(a, b) THEN a ELSE b

\* targetFill = 0.5
targetFill == <<1, 2>>

\* widths and heights of the decoded image
ImgDims == {427, 640, 1000, 1280, 2000}

\* detection boxes, in the coordinates of the image the detector ran on
Boxes ==
    { [x |-> x, y |-> 0, width |-> w, height |-> h] :
        x \in {0, 100}, w \in {50, 100}, h \in {50, 100} }

\* containerWidth and containerHeight
Containers == { [width |-> 100, height |-> 100], [width |-> 300, height |-> 200] }

RECURSIVE Pow2(_)
Pow2(n) == IF n = 0 THEN 1 ELSE 2 * Pow2(n - 1)

\* the largest p with d * 2^p <= n, for n >= d > 0
RECURSIVE FloorLog2(_, _)
FloorLog2(n, d) == IF 2 * d <= n THEN 1 + FloorLog2(n, 2 * d) ELSE 0

\* (r * 2^n) % d
RECURSIVE ShiftMod(_, _, _)
ShiftMod(r, d, n) == IF n = 0 THEN r ELSE ShiftMod((2 * r) % d, d, n - 1)

\* Math.round(MAX_SIZE / aspect) with aspect = width / height, width >=
\* height, in IEEE 754 doubles.  The exact quotient MAX_SIZE * height /
\* width is either a tie k + 1/2 or at least 1 / (2 * width) away from one,
\* far more than the error of two divisions, so only a tie can round
\* differently from the exact quotient.  `aspect` carries 53 significant
\* bits: with p = floor(log2(width / height)), the bits cut off are
\* rest / height of the last place, rest = (width * 2^(52 - p)) % height,
\* and aspect is rounded up when 2 * rest > height.  Then MAX_SIZE / aspect
\* lies below the tie by (k + 1/2) * (height - rest) / (height * M), M the
\* 53-bit mantissa of aspect, and the division returns the double below
\* the tie, which Math.round takes down to k, when that exceeds half a
\* unit in the last place of k + 1/2
roundQuotient(width, height) ==
    LET exact == Q(MAX_SIZE * height, width)
        k == exact[1] \div 2
        p == FloorLog2(width, height)
        q == FloorLog2(exact[1], 2)
        rest == ShiftMod(width % height, height, 52 - p)
    IN  IF exact[2] # 2 THEN MathRound(exact[1], exact[2])
        ELSE IF 2 * rest > height
                /\ (height - rest) * Pow2(p) * (2 * k + 1) > width * Pow2(q)
        THEN k
        ELSE k + 1

\* detectSource and scaleFactor of an image of the given size; for a
\* portrait image Math.round(MAX_SIZE * aspect) equals the exactly rounded
\* product for every size up to 3000 x 3000
prescale(width, height) ==
    IF width > MAX_SIZE \/ height > MAX_SIZE
    THEN LET aspect == Q(width, height)
             wide == QLe(<<1, 1>>, aspect)
             round(q) == MathRound(q[1], q[2])
             targetWidth == IF wide THEN Min(width, MAX_SIZE)
                            ELSE round(QMul(<<MAX_SIZE, 1>>, aspect))
             targetHeight == IF wide THEN roundQuotient(width, height)
                             ELSE Min(height, MAX_SIZE)
         IN  [width |-> targetWidth, height |-> targetHeight,
              scaleFactor |-> Q(targetWidth, width), scaled |-> TRUE]
    ELSE [width |-> width, height |-> height, scaleFactor |-> <<1, 1>>, scaled |-> FALSE]

\* the comparator of the sort with its operands swapped: ascending areas
compareAscending(a, b) == a.width * a.height - b.width * b.height

\* (a, b) => b.width * b.height - a.width * a.height
compare(a, b) == b.width * b.height - a.width * a.height

\* Array.prototype.sort is stable: an element goes behind every element
\* the comparator does not put after it
RECURSIVE insert(_, _)
insert(sorted, e) ==
    IF sorted = <<>> THEN <<e>>
    ELSE IF compare(Head(sorted), e) <= 0
         THEN <<Head(sorted)>> \o insert(Tail(sorted), e)
         ELSE <<e>> \o sorted

RECURSIVE sort(_)
sort(detections) ==
    IF detections = <<>> THEN <<>>
    ELSE insert(sort(SubSeq(detections, 1, Len(detections) - 1)),
                detections[Len(detections)])

\* the detections with their place in the detector's output
Indexed(detections) ==
    [i \in 1..Len(detections) |->
        [x |-> detections[i].x, y |-> detections[i].y, width |-> detections[i].width,
         height |-> detections[i].height, index |-> i]]

\* Math.min replaced by Math.max
scaleOfMax(box, container) ==
    LET a == QDiv(QMul(<<container.width, 1>>, targetFill), box.width)
        b == QDiv(QMul(<<container.height, 1>>, targetFill), box.height)
    IN  IF QLe(a, b) THEN b ELSE a

\* scale = Math.min(cw * targetFill / box.width, ch * targetFill / box.height)
scaleOf(box, container) ==
    QMin(QDiv(QMul(<<container.width, 1>>, targetFill), box.width),
         QDiv(QMul(<<container.height, 1>>, targetFill), box.height))

\* centerCropFace from the decoded image to the drawImage call
frame(img, detections, container) ==
    LET source == prescale(img.width, img.height)
        bestDetection == sort(Indexed(detections))[1]
        inv == QDiv(<<1, 1>>, source.scaleFactor)
        box == [x |-> QMul(<<bestDetection.x, 1>>, inv),
                y |-> QMul(<<bestDetection.y, 1>>, inv),
                width |-> QMul(<<bestDetection.width, 1>>, inv),
                height |-> QMul(<<bestDetection.height, 1>>, inv)]
        faceScale == scaleOf(box, container)
        faceCenterX == QAdd(box.x, QDiv(box.width, <<2, 1>>))
        faceCenterY == QAdd(box.y, QDiv(box.height, <<2, 1>>))
    IN  [img |-> img, detections |-> detections, container |-> container,
         detectSource |-> source, best |-> bestDetection.index, box |-> box,
         scale |-> faceScale,
         offsetX |-> QSub(<<container.width, 2>>, QMul(faceCenterX, faceScale)),
         offsetY |-> QSub(<<container.height, 2>>, QMul(faceCenterY, faceScale))]

\* the non-empty sequences of at most n boxes
DetectionLists(n) ==
    UNION {[1..k -> Boxes] : k \in 1..n}

InitFrame ==
    /\ template = "grid-33"
    /\ devicePixelRatio = 8
    /\ NoStore /\ NoExport /\ NoUi /\ NoFace
    /\ lastDraws = <<>>
    /\ crop = NoCrop
    /\ canvasSize = NoCanvas

\* one centerCropFace call that decodes its image and finds faces
FrameFace ==
    /\ framing = <<>>
    /\ \E w \in ImgDims, h \in ImgDims, detections \in DetectionLists(MaxFaces),
          container \in Containers :
          framing' = frame([width |-> w, height |-> h], detections, container)
    /\ UNCHANGED <<template, devicePixelRatio, store, exportVars, lastDraws, crop,
                   canvasSize, uiVars, modelsLoadedPromise, loadsStarted, calls>>

NextFrame == FrameFace

SpecFrame == InitFrame /\ [][NextFrame]_vars

(***************************************************************************)
(* Properties of the framing arithmetic (SpecFrame).                       *)
(***************************************************************************)
\* C30: an image wider or higher than 640 is detected on a copy whose
\* larger dimension is exactly 640 and whose other dimension is
\* round(640 * smaller / larger); any other image is detected as it is, with
\* scaleFactor 1
C30_Downscale ==
    framing # <<>> =>
        LET w == framing.img.width
            h == framing.img.height
            d == framing.detectSource
        IN  IF w > 640 \/ h > 640
            THEN IF w >= h
                 THEN d.width = 640 /\ d.height = (2 * 640 * h + w) \div (2 * w)
                 ELSE d.height = 640 /\ d.width = (2 * 640 * w + h) \div (2 * h)
            ELSE d.width = w /\ d.height = h /\ d.scaleFactor = <<1, 1>>

\* C29: for every image that is downscaled for detection, scaleFactor =
\* targetWidth / img.width equals targetHeight / img.height, so 1 / scaleFactor
\* maps the detected box back to the original image on both axes
C29_ScaleBothAxes ==
    (framing # <<>> /\ framing.detectSource.scaled) =>
        /\ framing.detectSource.scaleFactor =
               Q(framing.detectSource.width, framing.img.width)
        /\ framing.detectSource.scaleFactor =
               Q(framing.detectSource.height, framing.img.height)

Area(box) == box.width * box.height

\* C22: the framed detection has maximal width * height among the detector's
\* output, and no detection before it in the output has the same area
C22_LargestFirst ==
    framing # <<>> =>
        \A i \in 1..Len(framing.detections) :
            /\ Area(framing.detections[i]) <= Area(framing.detections[framing.best])
            /\ Area(framing.detections[i]) = Area(framing.detections[framing.best])
                   => framing.best <= i

\* two different detections share the maximal area and the first was framed,
\* behind a smaller one it would have followed in an ascending order
C22_Witness ==
    /\ framing # <<>>
    /\ Len(framing.detections) = 2
    /\ framing.detections[1] # framing.detections[2]
    /\ framing.detections[1].width # framing.detections[2].width
    /\ Area(framing.detections[1]) = Area(framing.detections[2])
    /\ framing.best = 1

\* C23: scaling the original image by scale and translating it by (offsetX,
\* offsetY) puts the centre of the face box at (containerWidth / 2,
\* containerHeight / 2), and the scaled face box is at most half the
\* container wide and at most half the container high
C23_Centred ==
    framing # <<>> =>
        LET box == framing.box
            half == <<1, 2>>
            centreX == QAdd(box.x, QMul(box.width, half))
            centreY == QAdd(box.y, QMul(box.height, half))
        IN  /\ QAdd(framing.offsetX, QMul(centreX, framing.scale))
                   = Q(framing.container.width, 2)
            /\ QAdd(framing.offsetY, QMul(centreY, framing.scale))
                   = Q(framing.container.height, 2)
            /\ QLe(QMul(box.width, framing.scale), Q(framing.container.width, 2))
            /\ QLe(QMul(box.height, framing.scale), Q(framing.container.height, 2))

\* a face of a downscaled image whose box fills half the container's width
\* and less than half its height
C23_Witness ==
    /\ framing # <<>>
    /\ framing.detectSource.scaled
    /\ QMul(framing.box.width, framing.scale) = Q(framing.container.width, 2)
    /\ QMul(framing.box.height, framing.scale) # Q(framing.container.height, 2)
    /\ framing.box.x # <<0, 1>>

====
